---- MODULE Spec2Model ----
(***************************************************************************)
(* Model of the voice-sql-generator pipeline: DDL sanitization, loading    *)
(* into a per-request in-memory engine, query generation (model call or    *)
(* heuristic), execution and the response, as implemented by               *)
(* src/python/auto_analyzer.py, src/python/file_extraction.py and the      *)
(* /api/generate-sql handler of src/app.py.                                *)
(*                                                                         *)
(* SQL text is a sequence of symbols.  A symbol is a keyword, an           *)
(* identifier, a punctuation mark or one whitespace character.  None of    *)
(* the regular expressions of the source uses a word boundary, and no      *)
(* symbol is a proper part of another symbol's match, so matching the      *)
(* source's patterns symbol by symbol is matching them character by        *)
(* character on the texts built from these symbols (case is folded: the    *)
(* patterns are all IGNORECASE).                                           *)
(***************************************************************************)
EXTENDS Integers, Sequences, FiniteSets, TLC

\* ------------------------------------------------------------------ text

SP == " "
NL == "\n"
Ws == {SP, NL}
Punct == {";", ",", "(", ")", "--"}

IsWs(c) == c \in Ws
\* \w : every symbol that is neither whitespace nor punctuation is made of
\* word characters only.
IsWord(c) == c \notin (Ws \cup Punct)

RECURSIVE SkipWs(_, _)
\* The index of the first symbol at or after i that is not whitespace
\* (Len(s) + 1 when there is none): where a greedy \s* or \s+ ends.
SkipWs(s, i) ==
    IF i > Len(s) THEN i
    ELSE IF IsWs(s[i]) THEN SkipWs(s, i + 1) ELSE i

RECURSIVE SkipWord(_, _)
\* Where a greedy \w+ started at i ends.
SkipWord(s, i) ==
    IF i > Len(s) THEN i
    ELSE IF IsWord(s[i]) THEN SkipWord(s, i + 1) ELSE i

\* The least element of a non-empty set of indexes.
Least(M) == CHOOSE k \in M : \A j \in M : k <= j

\* The index of the first symbol at or after i that is in S, 0 when none.
FindIn(s, i, S) ==
    IF i > Len(s) THEN 0
    ELSE LET hits == {k \in i..Len(s) : s[k] \in S} IN
         IF hits = {} THEN 0 ELSE Least(hits)

At(s, i, c) == i >= 1 /\ i <= Len(s) /\ s[i] = c

\* \s+ at i: the index after the run, 0 when s[i] is no whitespace.
Ws1(s, i) == IF i <= Len(s) /\ i >= 1 /\ IsWs(s[i]) THEN SkipWs(s, i) ELSE 0

\* KW1 \s+ KW2 starting at i: the index after KW2, 0 when it does not match.
Pair(s, i, a, b) ==
    IF ~At(s, i, a) THEN 0
    ELSE LET j == Ws1(s, i + 1) IN
         IF j # 0 /\ At(s, j, b) THEN j + 1 ELSE 0

\* ------------------------------------------- the rewrite chain's patterns

\* r"ENUM\s*\([^)]*\)"
MatchEnum(s, i) ==
    IF ~At(s, i, "ENUM") THEN 0
    ELSE LET j == SkipWs(s, i + 1) IN
         IF ~At(s, j, "(") THEN 0
         ELSE LET k == FindIn(s, j + 1, {")"}) IN
              IF k = 0 THEN 0 ELSE k + 1

\* r"AUTO_INCREMENT"
MatchAutoInc(s, i) == IF At(s, i, "AUTO_INCREMENT") THEN i + 1 ELSE 0

\* r"INT\s+AUTOINCREMENT\s+PRIMARY\s+KEY"
MatchIntAuto(s, i) ==
    LET j == Pair(s, i, "INT", "AUTOINCREMENT") IN
    IF j = 0 THEN 0
    ELSE LET k == Ws1(s, j) IN
         IF k = 0 THEN 0 ELSE Pair(s, k, "PRIMARY", "KEY")

\* r"\s+UNIQUE(?!\s+KEY)"
MatchUnique(s, i) ==
    LET j == Ws1(s, i) IN
    IF j = 0 \/ ~At(s, j, "UNIQUE") THEN 0
    ELSE LET k == Ws1(s, j + 1) IN
         IF k # 0 /\ At(s, k, "KEY") THEN 0 ELSE j + 1

\* r"ALTER TABLE\s+\w+\s+ADD[^;]*;"  (the blank of "ALTER TABLE" is one
\* space character, not \s)
MatchAlterAdd(s, i) ==
    IF ~(At(s, i, "ALTER") /\ At(s, i + 1, SP) /\ At(s, i + 2, "TABLE")) THEN 0
    ELSE LET j == Ws1(s, i + 3) IN
         IF j = 0 \/ SkipWord(s, j) = j THEN 0
         ELSE LET k == Ws1(s, SkipWord(s, j)) IN
              IF k = 0 \/ ~At(s, k, "ADD") THEN 0
              ELSE LET e == FindIn(s, k + 1, {";"}) IN
                   IF e = 0 THEN 0 ELSE e + 1

\* r"CREATE INDEX[^;]*;"
MatchCreateIndex(s, i) ==
    IF ~(At(s, i, "CREATE") /\ At(s, i + 1, SP) /\ At(s, i + 2, "INDEX")) THEN 0
    ELSE LET e == FindIn(s, i + 3, {";"}) IN
         IF e = 0 THEN 0 ELSE e + 1

\* [^,)]* from i: the index of the next "," or ")", Len(s) + 1 when none.
UptoSep(s, i) ==
    LET k == FindIn(s, i, {",", ")"}) IN IF k = 0 THEN Len(s) + 1 ELSE k

\* r",\s*UNIQUE\s+KEY\s+[^,)]*"
MatchUniqueKey(s, i) ==
    IF ~At(s, i, ",") THEN 0
    ELSE LET j == Pair(s, SkipWs(s, i + 1), "UNIQUE", "KEY") IN
         IF j = 0 \/ Ws1(s, j) = 0 THEN 0 ELSE UptoSep(s, j)

\* r",\s*KEY\s+[^,)]*"
MatchKey(s, i) ==
    IF ~At(s, i, ",") THEN 0
    ELSE LET j == SkipWs(s, i + 1) IN
         IF ~At(s, j, "KEY") \/ Ws1(s, j + 1) = 0 THEN 0 ELSE UptoSep(s, j + 1)

\* r",\s*CONSTRAINT[^,)]*"
MatchConstraint(s, i) ==
    IF ~At(s, i, ",") THEN 0
    ELSE LET j == SkipWs(s, i + 1) IN
         IF ~At(s, j, "CONSTRAINT") THEN 0 ELSE UptoSep(s, j + 1)

MatchEnd(rule, s, i) ==
    CASE rule = "enum" -> MatchEnum(s, i)
      [] rule = "autoinc" -> MatchAutoInc(s, i)
      [] rule = "intauto" -> MatchIntAuto(s, i)
      [] rule = "unique" -> MatchUnique(s, i)
      [] rule = "alter" -> MatchAlterAdd(s, i)
      [] rule = "index" -> MatchCreateIndex(s, i)
      [] rule = "uniquekey" -> MatchUniqueKey(s, i)
      [] rule = "key" -> MatchKey(s, i)
      [] rule = "constraint" -> MatchConstraint(s, i)

Replacement(rule) ==
    CASE rule = "enum" -> <<"TEXT">>
      [] rule = "autoinc" -> <<"AUTOINCREMENT">>
      [] rule = "intauto" ->
            <<"INTEGER", SP, "PRIMARY", SP, "KEY", SP, "AUTOINCREMENT">>
      [] OTHER -> <<>>

RECURSIVE SubFrom(_, _, _)
\* re.sub: the leftmost match at or after i is replaced, what lies before
\* it is kept, and the scan goes on after it.
SubFrom(rule, s, i) ==
    LET starts == {k \in i..Len(s) : MatchEnd(rule, s, k) # 0} IN
    IF starts = {} THEN SubSeq(s, i, Len(s))
    ELSE LET k == Least(starts) IN
         SubSeq(s, i, k - 1) \o Replacement(rule)
             \o SubFrom(rule, s, MatchEnd(rule, s, k))

\* No pattern matches the empty string: an empty text stays as it is.
ReSub(rule, s) == IF s = <<>> THEN <<>> ELSE SubFrom(rule, s, 1)

\* ------------------------------------------------- load_sql_schema_into_sqlite

RECURSIVE LinesFrom(_, _)
\* f.readlines(): the text cut after every newline, the newline kept.
LinesFrom(s, i) ==
    IF i > Len(s) THEN <<>>
    ELSE LET k == FindIn(s, i, {NL}) IN
         IF k = 0 THEN <<SubSeq(s, i, Len(s))>>
         ELSE <<SubSeq(s, i, k)>> \o LinesFrom(s, k + 1)

ReadLines(s) == LinesFrom(s, 1)

\* re.match(r"\s*(CREATE\s+DATABASE|USE)\s+", line)
IsDbLine(line) ==
    LET i == SkipWs(line, 1)
        j == Pair(line, i, "CREATE", "DATABASE")
    IN  \/ (j # 0 /\ Ws1(line, j) # 0)
        \/ (At(line, i, "USE") /\ Ws1(line, i + 1) # 0)

\* The four re.sub calls on one kept line, in the order of the source.
CleanLine(line) ==
    ReSub("unique", ReSub("intauto", ReSub("autoinc", ReSub("enum", line))))

RECURSIVE CleanLines(_)
\* "".join(cleaned_lines): the kept lines, rewritten, joined.
CleanLines(ls) ==
    IF ls = <<>> THEN <<>>
    ELSE (IF IsDbLine(Head(ls)) THEN <<>> ELSE CleanLine(Head(ls)))
         \o CleanLines(Tail(ls))

\* Lines 101-104: the ALTER TABLE ... ADD and CREATE INDEX statements go.
RemoveStatements(s) == ReSub("index", ReSub("alter", s))

\* Lines 106-109: the table constraints go.
RemoveConstraints(s) == ReSub("constraint", ReSub("key", ReSub("uniquekey", s)))

\* The five re.sub calls on the joined text.
CleanText(s) == RemoveConstraints(RemoveStatements(s))

\* The sanitized text: what sql_text holds when the loader starts executing.
Translate(text) == CleanText(CleanLines(ReadLines(text)))

RECURSIVE SplitFrom(_, _)
\* sql_text.split(";")
SplitFrom(s, i) ==
    LET k == FindIn(s, i, {";"}) IN
    IF k = 0 THEN <<SubSeq(s, i, Len(s))>>
    ELSE <<SubSeq(s, i, k - 1)>> \o SplitFrom(s, k + 1)

SplitSemi(s) == SplitFrom(s, 1)

RECURSIVE RStrip(_)
RStrip(s) ==
    IF s # <<>> /\ IsWs(s[Len(s)]) THEN RStrip(SubSeq(s, 1, Len(s) - 1)) ELSE s

\* stmt.strip()
Strip(s) == RStrip(SubSeq(s, SkipWs(s, 1), Len(s)))

\* stmt and not stmt.startswith("--")
IsRunnable(stmt) == stmt # <<>> /\ stmt[1] # "--"

RECURSIVE StripAll(_)
StripAll(ps) ==
    IF ps = <<>> THEN <<>> ELSE <<Strip(Head(ps))>> \o StripAll(Tail(ps))

\* The statements the loader's loop hands to conn.execute, in order.
Statements(s) == SelectSeq(StripAll(SplitSemi(s)), IsRunnable)

\* re.search(r"CREATE TABLE\s+(?:IF NOT EXISTS\s+)?(\w+)", sql_text): the
\* index of the captured identifier when the pattern matches at i, else 0.
\* The optional group is tried first; when the name after it fails to match
\* the regex backtracks and captures the word after CREATE TABLE.
MatchCreateTable(s, i) ==
    IF ~(At(s, i, "CREATE") /\ At(s, i + 1, SP) /\ At(s, i + 2, "TABLE")) THEN 0
    ELSE LET j == Ws1(s, i + 3)
             ine == /\ At(s, j, "IF") /\ At(s, j + 1, SP) /\ At(s, j + 2, "NOT")
                    /\ At(s, j + 3, SP) /\ At(s, j + 4, "EXISTS")
             k == IF j # 0 /\ ine THEN Ws1(s, j + 5) ELSE 0
         IN  IF j = 0 THEN 0
             ELSE IF k # 0 /\ k <= Len(s) /\ IsWord(s[k]) THEN k
             ELSE IF j <= Len(s) /\ IsWord(s[j]) THEN j ELSE 0

\* The capture of the last match of the pattern at or before i, 0 when none.
LastCreateTable(s, i) ==
    LET heads == {k \in 1..i : MatchCreateTable(s, k) # 0} IN
    IF heads = {} THEN 0
    ELSE MatchCreateTable(s, CHOOSE k \in heads : \A j \in heads : j <= k)

\* A loader that names the table of the last CREATE TABLE of the text.
infer_last_table_name(sql_text) ==
    LET k == LastCreateTable(sql_text, Len(sql_text)) IN
    IF k = 0 THEN "uploaded_table" ELSE sql_text[k]

\* re.search: the capture of the leftmost match at or after i, 0 when none.
FirstCreateTable(s, i) ==
    LET heads == {k \in i..Len(s) : MatchCreateTable(s, k) # 0} IN
    IF heads = {} THEN 0 ELSE MatchCreateTable(s, Least(heads))

infer_table_name_from_sql(sql_text) ==
    LET k == FirstCreateTable(sql_text, 1) IN
    IF k = 0 THEN "uploaded_table" ELSE sql_text[k]

\* ------------------------------------------------- the in-memory engine
\* sqlite3.connect(":memory:") and what conn.execute / pd.read_sql_query do
\* with the statements this model hands to it.  A database is a function
\* from the names of its tables to [cols, rows]: the column names in order
\* and the number of rows.

Keywords ==
    {"CREATE", "TABLE", "DATABASE", "USE", "ENUM", "TEXT", "AUTO_INCREMENT",
     "AUTOINCREMENT", "INT", "INTEGER", "PRIMARY", "KEY", "UNIQUE", "ALTER",
     "ADD", "INDEX", "CONSTRAINT", "IF", "NOT", "EXISTS", "INSERT", "INTO",
     "VALUES", "ON"}

IsIdent(c) == IsWord(c) /\ c \notin Keywords

EmptyDb == [t \in {} |-> [cols |-> <<>>, rows |-> 0]]

\* The tokenizer skips a "--" comment up to the end of its line: the
\* symbols of s that are neither whitespace nor part of a comment.
DropComments(s) ==
    LET InComment(k) == \E c \in 1..k : s[c] = "--" /\ \A j \in c..(k - 1) : s[j] # NL
        Kept(k) == ~IsWs(s[k]) /\ ~InComment(k)
        kept == SelectSeq([k \in 1..Len(s) |-> k], Kept)
    IN  [n \in 1..Len(kept) |-> s[kept[n]]]

\* The statement's tokens: comments and whitespace dropped.
Tokens(stmt) == DropComments(stmt)

RECURSIVE SplitComma(_, _)
\* The parts of s from i on that the commas separate.
SplitComma(s, i) ==
    LET k == FindIn(s, i, {","}) IN
    IF k = 0 THEN <<SubSeq(s, i, Len(s))>>
    ELSE <<SubSeq(s, i, k - 1)>> \o SplitComma(s, k + 1)

\* The column definitions the engine accepts after the column's name.
ColumnTypes ==
    {<<"INT">>, <<"TEXT">>, <<"INTEGER">>,
     <<"INT", "PRIMARY", "KEY">>, <<"INTEGER", "PRIMARY", "KEY">>,
     <<"INTEGER", "PRIMARY", "KEY", "AUTOINCREMENT">>}

IsColumnDef(d) ==
    Len(d) >= 2 /\ IsIdent(d[1]) /\ SubSeq(d, 2, Len(d)) \in ColumnTypes

\* CREATE TABLE [IF NOT EXISTS] name ( coldef {, coldef} ) : the parsed
\* statement, [ok |-> FALSE] when the tokens are not of that form.
ParseCreate(w) ==
    LET ine == Len(w) >= 5 /\ SubSeq(w, 3, 5) = <<"IF", "NOT", "EXISTS">>
        n == IF ine THEN 6 ELSE 3
        wellformed ==
            /\ Len(w) >= n + 3
            /\ w[1] = "CREATE" /\ w[2] = "TABLE"
            /\ IsIdent(w[n]) /\ w[n + 1] = "(" /\ w[Len(w)] = ")"
        defs == SplitComma(SubSeq(w, n + 2, Len(w) - 1), 1)
    IN  IF /\ wellformed
           /\ \A k \in 1..Len(defs) : IsColumnDef(defs[k])
           /\ \A a, b \in 1..Len(defs) : a # b => defs[a][1] # defs[b][1]
        THEN [ok |-> TRUE, name |-> w[n], ine |-> ine,
              cols |-> [k \in 1..Len(defs) |-> defs[k][1]]]
        ELSE [ok |-> FALSE]

\* INSERT INTO name VALUES ( v {, v} )
ParseInsert(w) ==
    LET wellformed ==
            /\ Len(w) >= 7
            /\ SubSeq(w, 1, 2) = <<"INSERT", "INTO">> /\ IsIdent(w[3])
            /\ w[4] = "VALUES" /\ w[5] = "(" /\ w[Len(w)] = ")"
        vals == SplitComma(SubSeq(w, 6, Len(w) - 1), 1)
    IN  IF wellformed /\ \A k \in 1..Len(vals) : vals[k] \in {<<"1">>, <<"2">>}
        THEN [ok |-> TRUE, name |-> w[3], n |-> Len(vals)]
        ELSE [ok |-> FALSE]

\* conn.execute(stmt); conn.commit(): [ok, db], ok FALSE when the engine
\* raises (the database is then as it was).
ExecStmt(db, stmt) ==
    LET w == Tokens(stmt)
        c == ParseCreate(w)
        i == ParseInsert(w)
    IN  IF c.ok
        THEN IF c.name \in DOMAIN db
             THEN [ok |-> c.ine, db |-> db]
             ELSE [ok |-> TRUE,
                   db |-> [t \in DOMAIN db \cup {c.name} |->
                             IF t = c.name THEN [cols |-> c.cols, rows |-> 0]
                             ELSE db[t]]]
        ELSE IF i.ok /\ i.name \in DOMAIN db /\ i.n = Len(db[i.name].cols)
        THEN [ok |-> TRUE,
              db |-> [db EXCEPT ![i.name].rows = @ + 1]]
        ELSE [ok |-> FALSE, db |-> db]

\* cur = conn.execute(f"PRAGMA table_info({table_name});");
\* cols = [row[1] for row in cur.fetchall()]  -- no rows for a table the
\* database does not hold; an exception leaves cols = [].
TableInfo(db, table_name) ==
    IF table_name \in DOMAIN db THEN db[table_name].cols ELSE <<>>

\* ------------------------------------------------- generate_sql_with_gemini
\* A query text is a sequence of chunks, as the f-strings build it.

AvgQuery(table) == <<"SELECT AVG(marks) AS average_marks FROM ", table, ";">>
CountQuery(table) == <<"SELECT COUNT(*) AS row_count FROM ", table, ";">>

\* c.lower() on the column names of the model.
Lower(c) ==
    CASE c = "Marks" -> "marks"
      [] c = "MARKS" -> "marks"
      [] c = "Name" -> "name"
      [] OTHER -> c

\* "marks" in [c.lower() for c in cols]
HasMarks(cols) == \E k \in 1..Len(cols) : Lower(cols[k]) = "marks"

\* The branch taken when gemini_key is empty (lines 14-20).
HeuristicNoKey(schema_context) ==
    IF HasMarks(schema_context.columns)
    THEN AvgQuery(schema_context.table_name)
    ELSE CountQuery(schema_context.table_name)

\* The except branch (lines 72-77): cols is read and not used.
HeuristicOnError(schema_context) == CountQuery(schema_context.table_name)

\* The markdown code fence (three backquotes), one symbol.
FENCE == "<fence>"

\* sql_query.split(FENCE)[1] of a text that starts with the fence: what
\* lies between the first fence and the next one (or the end).
AfterFence(s) ==
    LET k == FindIn(s, 2, {FENCE}) IN
    SubSeq(s, 2, IF k = 0 THEN Len(s) ELSE k - 1)

\* Lines 56-70: strip, unwrap a fenced block and its "sql" tag, strip, end
\* with a semicolon.
CleanResponse(text) ==
    LET a == Strip(text)
        b == IF a # <<>> /\ a[1] = FENCE THEN AfterFence(a) ELSE a
        c == IF a # <<>> /\ a[1] = FENCE /\ b # <<>> /\ b[1] = "sql"
             THEN Tail(b) ELSE b
        d == Strip(c)
    IN  IF d # <<>> /\ d[Len(d)] = ";" THEN d ELSE Append(d, ";")

\* What the call of the external model can do: raise, or answer a text.
ModelOutcomes(schema_context) ==
    LET t == schema_context.table_name IN
    { [raises |-> TRUE, text |-> <<>>],
      [raises |-> FALSE, text |-> <<"SELECT COUNT(*) AS row_count FROM ", t, ";">>],
      [raises |-> FALSE,
       text |-> <<FENCE, "sql", NL, "SELECT * FROM ", t, NL, FENCE, NL>>],
      [raises |-> FALSE, text |-> <<"SELECT nosuch FROM ", t>>] }

generate_sql_with_gemini(nl_query, schema_context, gemini_key, outcome) ==
    IF gemini_key = "" THEN HeuristicNoKey(schema_context)
    ELSE IF outcome.raises THEN HeuristicOnError(schema_context)
    ELSE CleanResponse(outcome.text)

\* pd.read_sql_query(sql_query, conn) and df_out.to_dict(orient="records"):
\* [ok, rows, msg], ok FALSE with the message of the engine when it raises.
ExecQuery(db, q) ==
    LET form == Len(q) = 3 /\ q[3] = ";"
        t == q[2]
        missing == [ok |-> FALSE, rows |-> <<>>, msg |-> "no such table"]
    IN  IF ~form THEN [ok |-> FALSE, rows |-> <<>>, msg |-> "syntax error"]
        ELSE IF q[1] = "SELECT COUNT(*) AS row_count FROM "
        THEN IF t \in DOMAIN db
             THEN [ok |-> TRUE, rows |-> <<[row_count |-> db[t].rows]>>, msg |-> ""]
             ELSE missing
        ELSE IF q[1] = "SELECT AVG(marks) AS average_marks FROM "
        THEN IF t \notin DOMAIN db THEN missing
             ELSE IF HasMarks(db[t].cols)
             THEN [ok |-> TRUE,
                   rows |-> <<[average_marks |-> IF db[t].rows = 0 THEN "null" ELSE "avg"]>>,
                   msg |-> ""]
             ELSE [ok |-> FALSE, rows |-> <<>>, msg |-> "no such column"]
        ELSE IF q[1] = "SELECT * FROM "
        THEN IF t \in DOMAIN db
             THEN [ok |-> TRUE,
                   rows |-> [k \in 1..db[t].rows |-> [cols |-> db[t].cols, row |-> k]],
                   msg |-> ""]
             ELSE missing
        ELSE IF q[1] = "SELECT nosuch FROM "
        THEN IF t \in DOMAIN db
             THEN [ok |-> FALSE, rows |-> <<>>, msg |-> "no such column"]
             ELSE missing
        ELSE [ok |-> FALSE, rows |-> <<>>, msg |-> "syntax error"]

\* ------------------------------------------------- the files on disk
\* What schemaPath can name.  A .csv file is what pd.read_csv makes of it
\* (parses FALSE: read_csv raises); an .sql / .schema file is its text.

OkSql ==
    <<"CREATE", SP, "TABLE", SP, "t1", SP, "(", "id", SP, "INT", SP,
      "AUTO_INCREMENT", SP, "PRIMARY", SP, "KEY", ",", SP, "marks", SP,
      "INT", ")", ";", NL, "INSERT", SP, "INTO", SP, "t1", SP, "VALUES",
      SP, "(", "1", ",", SP, "2", ")", ";", NL>>

MysqlSql ==
    <<"USE", SP, "db", ";", NL, "CREATE", SP, "TABLE", SP, "t1", SP, "(",
      "c1", SP, "INT", ",", SP, "UNIQUE", SP, "KEY", SP, "k1", SP, "(",
      "c1", ")", ")", ";", NL, "CREATE", SP, "TABLE", SP, "t2", SP, "(",
      "c1", SP, "INT", SP, "UNIQUE", ")", ";", NL, "INSERT", SP, "INTO",
      SP, "t2", SP, "VALUES", SP, "(", "1", ")", ";", NL, "ALTER", SP,
      "TABLE", SP, "t2", SP, "ADD", SP, "c2", SP, "INT", ";", NL>>

DupSchema ==
    <<"CREATE", SP, "TABLE", SP, "IF", SP, "NOT", SP, "EXISTS", SP, "t1",
      SP, "(", "c1", SP, "INT", ")", ";", NL, "CREATE", SP, "TABLE", SP,
      "t1", SP, "(", "c1", SP, "INT", ")", ";", NL, "INSERT", SP, "INTO",
      SP, "t1", SP, "VALUES", SP, "(", "1", ")", ";", NL, "INSERT", SP,
      "INTO", SP, "t1", SP, "VALUES", SP, "(", "2", ")", ";", NL>>

NoneSql ==
    <<"INSERT", SP, "INTO", SP, "t1", SP, "VALUES", SP, "(", "1", ")",
      ";", NL>>

CsvFile(parses, columns, rows) ==
    [parses |-> parses, columns |-> columns, rows |-> rows, text |-> <<>>]
SqlFile(text) ==
    [parses |-> FALSE, columns |-> <<>>, rows |-> <<>>, text |-> text]

Files ==
    ("marks.csv" :> CsvFile(TRUE, <<"id", "name", "marks">>, <<"row1", "row2">>))
    @@ ("Marks.csv" :> CsvFile(TRUE, <<"id", "Marks">>, <<"row1">>))
    @@ ("plain.csv" :> CsvFile(TRUE, <<"id", "name">>, <<"row1", "row2", "row3">>))
    @@ ("bad.csv" :> CsvFile(FALSE, <<>>, <<>>))
    @@ ("ok.sql" :> SqlFile(OkSql))
    @@ ("mysql.sql" :> SqlFile(MysqlSql))
    @@ ("DUP.SCHEMA" :> SqlFile(DupSchema))
    @@ ("none.sql" :> SqlFile(NoneSql))
    @@ ("notes.txt" :> SqlFile(OkSql))

\* No schemaPath given (app.py: data.get("schemaPath") is None; the
\* command line: fewer than three arguments).
NoPath == ""
Paths == DOMAIN Files \cup {"gone.csv", "gone.sql", NoPath}

\* os.path.exists(schema_path)
Exists(path) == path \in DOMAIN Files

\* schema_path.lower().endswith(...): "csv", "sql" or "other".
Suffix(path) ==
    CASE path \in {"marks.csv", "Marks.csv", "plain.csv", "bad.csv", "gone.csv"} -> "csv"
      [] path \in {"ok.sql", "mysql.sql", "DUP.SCHEMA", "none.sql", "gone.sql"} -> "sql"
      [] OTHER -> "other"

\* The .sql / .schema files that exist.
SqlPaths == {p \in DOMAIN Files : Suffix(p) = "sql"}

\* What load_sql_schema_into_sqlite makes of each of them before its loop
\* (lines 80-114): the runnable statements of the sanitized text.
FileStatements ==
    [p \in SqlPaths |-> Statements(Translate(Files[p].text))]

\* extract_csv of file_extraction.py
PreviewRows == 10
extract_csv(file_path) ==
    LET df == Files[file_path] IN
    [columns |-> df.columns,
     rows |-> SubSeq(df.rows, 1, IF Len(df.rows) < PreviewRows
                                 THEN Len(df.rows) ELSE PreviewRows),
     row_count |-> Len(df.rows)]

\* A load that takes the header line of the file for a row of data.
ToSqlHeaderRow(db, df) ==
    [t \in DOMAIN db \cup {"uploaded_table"} |->
        IF t = "uploaded_table"
        THEN [cols |-> df.columns, rows |-> Len(df.rows) + 1]
        ELSE db[t]]

\* df.to_sql("uploaded_table", conn, index=False, if_exists="replace")
ToSql(db, df) ==
    [t \in DOMAIN db \cup {"uploaded_table"} |->
        IF t = "uploaded_table"
        THEN [cols |-> df.columns, rows |-> Len(df.rows)]
        ELSE db[t]]

\* ------------------------------------------------- the request handlers
\* generate_sql of app.py (entry "app") and main of auto_analyzer.py (entry
\* "cli"), one step per statement that touches the engine, the model, the
\* history store or the response.

Requests == {"r1", "r2"}
Entries == {"app", "cli"}
Queries == {"", "show average marks"}

VARIABLES
    gemini_key,     \* GEMINI_KEY, read once from the environment
    req,            \* req[r]: the request: entry, query, path
    pc,             \* pc[r]: where the handler of r stands
    conn,           \* conn[r]: the engine the local variable conn refers to
    engines,        \* engines[e]: status and database of engine e
    stmts,          \* stmts[r]: the statements of the loader loop
    idx,            \* idx[r]: the next statement of the loop
    ctx,            \* ctx[r]: schema_context
    sql_query,      \* sql_query[r]: the generated query text
    result_rows,    \* result_rows[r]
    resp,           \* resp[r]: the JSON object returned / printed
    history,        \* the rows of query_history
    trace,          \* trace[r]: the calls r has made, in order (observation)
    ddl             \* the sanitizer run on its own: stage, text, results

pipeline == <<gemini_key, req, pc, conn, engines, stmts, idx, ctx, sql_query,
              result_rows, resp, history, trace>>
vars == <<pipeline, ddl>>

NoConn == "none"
NoCtx == [columns |-> <<>>, table_name |-> ""]
NoResp == [code |-> 0]
NoEngine == [status |-> "none", db |-> EmptyDb]
NoDdl == [stage |-> "none", text |-> <<>>, lines |-> <<>>, removed |-> <<>>,
          out |-> <<>>, stmts |-> <<>>]

Init ==
    /\ gemini_key \in {"", "key"}
    /\ req \in [Requests -> [entry : Entries, query : Queries, path : Paths]]
    /\ pc = [r \in Requests |-> "start"]
    /\ conn = [r \in Requests |-> NoConn]
    /\ engines = [e \in Requests |-> NoEngine]
    /\ stmts = [r \in Requests |-> <<>>]
    /\ idx = [r \in Requests |-> 0]
    /\ ctx = [r \in Requests |-> NoCtx]
    /\ sql_query = [r \in Requests |-> <<>>]
    /\ result_rows = [r \in Requests |-> <<>>]
    /\ resp = [r \in Requests |-> NoResp]
    /\ history = <<>>
    /\ trace = [r \in Requests |-> <<>>]
    /\ ddl = NoDdl

\* return jsonify(body), code  /  print(json.dumps(body)); return
Return(r, body) ==
    /\ resp' = [resp EXCEPT ![r] = body]
    /\ pc' = [pc EXCEPT ![r] = "done"]

\* The HTTP status of the app; the command line prints the body only.
Code(r, http) == IF req[r].entry = "app" THEN http ELSE 0

\* except Exception as e: return jsonify({"error": str(e)}), 500
Raise(r, msg) == Return(r, [code |-> Code(r, 500), error |-> <<msg>>])

\* A handler that lets an empty query text through.
MissingQueryNever(r) == FALSE

\* if not nl_query
MissingQuery(r) == req[r].query = ""

\* app.py 196-203 / auto_analyzer.py 127-133
Validate(r) ==
    /\ pc[r] = "start"
    /\ IF req[r].entry = "app"
       THEN IF MissingQuery(r)
            THEN Return(r, [code |-> 400, error |-> <<"Missing query">>])
            ELSE IF req[r].path = NoPath \/ ~Exists(req[r].path)
            THEN Return(r, [code |-> 400, error |-> <<"Missing or invalid schemaPath">>])
            ELSE pc' = [pc EXCEPT ![r] = "connect"] /\ UNCHANGED resp
       ELSE IF req[r].path = NoPath
            THEN Return(r, [code |-> 0, error |-> <<"Missing arguments">>])
            ELSE pc' = [pc EXCEPT ![r] = "connect"] /\ UNCHANGED resp
    /\ UNCHANGED <<ddl, gemini_key, req, conn, engines, stmts, idx, ctx, sql_query,
                   result_rows, history, trace>>

\* A handler that keeps one connection for all its requests.
SharedEngine(r) == "r1"

\* conn = sqlite3.connect(":memory:") : a new, empty engine of its own.
NewEngine(r) == r

Connect(r) ==
    /\ pc[r] = "connect"
    /\ conn' = [conn EXCEPT ![r] = NewEngine(r)]
    /\ engines' = [engines EXCEPT ![NewEngine(r)] =
                      [status |-> "open", db |-> EmptyDb]]
    /\ pc' = [pc EXCEPT ![r] = "load"]
    /\ UNCHANGED <<ddl, gemini_key, req, stmts, idx, ctx, sql_query, result_rows,
                   resp, history, trace>>

Db(r) == engines[conn[r]].db

\* The load step: the csv branch (read_csv, to_sql, schema_context), the
\* start of the sql branch (the file is read, sanitized and split), or the
\* else branch.  On the command line the file may not exist: open and
\* read_csv raise, and the outer except answers.
Load(r) ==
    /\ pc[r] = "load"
    /\ LET path == req[r].path IN
       IF Suffix(path) = "csv"
       THEN IF ~Exists(path) \/ ~Files[path].parses
            THEN /\ Raise(r, IF Exists(path) THEN "Error tokenizing data"
                             ELSE "No such file or directory")
                 /\ UNCHANGED <<engines, ctx, stmts, idx>>
            ELSE /\ engines' = [engines EXCEPT ![conn[r]].db = ToSql(@, Files[path])]
                 /\ ctx' = [ctx EXCEPT ![r] = [columns |-> Files[path].columns,
                                               table_name |-> "uploaded_table"]]
                 /\ pc' = [pc EXCEPT ![r] = "generate"]
                 /\ UNCHANGED <<resp, stmts, idx>>
       ELSE IF Suffix(path) = "sql"
       THEN IF ~Exists(path)
            THEN /\ Raise(r, "No such file or directory")
                 /\ UNCHANGED <<engines, ctx, stmts, idx>>
            ELSE /\ stmts' = [stmts EXCEPT ![r] = FileStatements[path]]
                 /\ idx' = [idx EXCEPT ![r] = 1]
                 /\ pc' = [pc EXCEPT ![r] = "stmt"]
                 /\ UNCHANGED <<resp, engines, ctx>>
       ELSE /\ Return(r, [code |-> Code(r, 400), error |-> <<"Unsupported file type">>])
            /\ UNCHANGED <<engines, ctx, stmts, idx>>
    /\ UNCHANGED <<ddl, gemini_key, req, conn, sql_query, result_rows, history, trace>>

\* A loop that stops at the first statement the engine refuses.
AbortOnError(r, ok) ==
    idx' = [idx EXCEPT ![r] = IF ok THEN @ + 1 ELSE Len(stmts[r]) + 1]

\* Where the loop goes after conn.execute returned (ok) or raised: the
\* except clause is "pass", so to the next statement either way.
AfterStatement(r, ok) == idx' = [idx EXCEPT ![r] = @ + 1]

\* One turn of the loop of load_sql_schema_into_sqlite (lines 112-119).
ExecuteStatement(r) ==
    /\ pc[r] = "stmt"
    /\ idx[r] <= Len(stmts[r])
    /\ LET res == ExecStmt(Db(r), stmts[r][idx[r]]) IN
       /\ engines' = [engines EXCEPT ![conn[r]].db = res.db]
       /\ trace' = [trace EXCEPT ![r] =
                       Append(@, [call |-> "execute", stmt |-> stmts[r][idx[r]],
                                  ok |-> res.ok])]
       /\ AfterStatement(r, res.ok)
    /\ UNCHANGED <<ddl, gemini_key, req, pc, conn, stmts, ctx, sql_query, result_rows,
                   resp, history>>

\* After the loop: table_name, the PRAGMA, schema_context (app.py 220-228).
BuildContext(r) ==
    /\ pc[r] = "stmt"
    /\ idx[r] > Len(stmts[r])
    /\ LET table_name == infer_table_name_from_sql(Files[req[r].path].text) IN
       ctx' = [ctx EXCEPT ![r] = [columns |-> TableInfo(Db(r), table_name),
                                  table_name |-> table_name]]
    /\ pc' = [pc EXCEPT ![r] = "generate"]
    /\ UNCHANGED <<ddl, gemini_key, req, conn, engines, stmts, idx, sql_query,
                   result_rows, resp, history, trace>>

\* sql_query = generate_sql_with_gemini(nl_query, schema_context, GEMINI_KEY)
Generate(r) ==
    /\ pc[r] = "generate"
    /\ \E outcome \in ModelOutcomes(ctx[r]) :
         LET sql == generate_sql_with_gemini(req[r].query, ctx[r], gemini_key, outcome) IN
         /\ sql_query' = [sql_query EXCEPT ![r] = sql]
         /\ trace' = [trace EXCEPT ![r] =
               Append(@, [call |-> "generate", context |-> ctx[r], sql |-> sql,
                          degraded |-> gemini_key = "" \/ outcome.raises])]
    /\ pc' = [pc EXCEPT ![r] = "execute"]
    /\ UNCHANGED <<ddl, gemini_key, req, conn, engines, stmts, idx, ctx, result_rows,
                   resp, history>>

\* A handler that answers a failed query as if it had returned no rows.
ExecutionSwallowed(r, msg) ==
    [code |-> Code(r, 200), sql |-> sql_query[r], result |-> <<>>]

\* The response to a query that failed to run (app.py 241-242).
ExecutionFailed(r, msg) ==
    [code |-> Code(r, 500), sql |-> sql_query[r],
     error |-> <<"SQL execution failed: ", msg>>]

\* The inner try of app.py 238-242 / auto_analyzer.py 179-184.
Execute(r) ==
    /\ pc[r] = "execute"
    /\ LET res == ExecQuery(Db(r), sql_query[r]) IN
       /\ trace' = [trace EXCEPT ![r] =
                       Append(@, [call |-> "query", ok |-> res.ok, rows |-> res.rows])]
       /\ IF res.ok
          THEN /\ result_rows' = [result_rows EXCEPT ![r] = res.rows]
               /\ pc' = [pc EXCEPT ![r] =
                            IF req[r].entry = "app" THEN "history" ELSE "respond"]
               /\ UNCHANGED resp
          ELSE /\ Return(r, ExecutionFailed(r, res.msg))
               /\ UNCHANGED result_rows
    /\ UNCHANGED <<ddl, gemini_key, req, conn, engines, stmts, idx, ctx, sql_query,
                   history>>

\* A handler whose history write is inside the outer try only: a failed
\* INSERT is answered by the outer except.
SaveHistoryUnabsorbed(r) ==
    /\ pc[r] = "history"
    /\ \E saved \in BOOLEAN :
         /\ history' = IF saved
                       THEN Append(history,
                              [user_id |-> "user", query |-> req[r].query,
                               generated_sql |-> sql_query[r],
                               result_count |-> Len(result_rows[r])])
                       ELSE history
         /\ trace' = [trace EXCEPT ![r] = Append(@, [call |-> "history", ok |-> saved])]
         /\ IF saved
            THEN pc' = [pc EXCEPT ![r] = "respond"] /\ UNCHANGED resp
            ELSE Raise(r, "database is locked")
    /\ UNCHANGED <<ddl, gemini_key, req, conn, engines, stmts, idx, ctx, sql_query,
                   result_rows>>

\* app.py 245-257: the INSERT into query_history, its failure absorbed.
SaveHistory(r) ==
    /\ pc[r] = "history"
    /\ \E saved \in BOOLEAN :
         /\ history' = IF saved
                       THEN Append(history,
                              [user_id |-> "user", query |-> req[r].query,
                               generated_sql |-> sql_query[r],
                               result_count |-> Len(result_rows[r])])
                       ELSE history
         /\ trace' = [trace EXCEPT ![r] = Append(@, [call |-> "history", ok |-> saved])]
    /\ pc' = [pc EXCEPT ![r] = "respond"]
    /\ UNCHANGED <<ddl, gemini_key, req, conn, engines, stmts, idx, ctx, sql_query,
                   result_rows, resp>>

\* return jsonify({"sql": sql_query, "result": result_rows})
Respond(r) ==
    /\ pc[r] = "respond"
    /\ Return(r, [code |-> Code(r, 200), sql |-> sql_query[r],
                  result |-> result_rows[r]])
    /\ UNCHANGED <<ddl, gemini_key, req, conn, engines, stmts, idx, ctx, sql_query,
                   result_rows, history, trace>>

\* The handler never closes conn.  After it has returned, the connection
\* object is unreachable and the interpreter closes it when it collects it
\* (on the command line: when the process ends).
Collect(r) ==
    /\ pc[r] = "done"
    /\ conn[r] # NoConn
    /\ engines[conn[r]].status = "open"
    /\ engines' = [engines EXCEPT ![conn[r]].status = "closed"]
    /\ UNCHANGED <<ddl, gemini_key, req, pc, conn, stmts, idx, ctx, sql_query,
                   result_rows, resp, history, trace>>

Next ==
    \E r \in Requests :
        \/ Validate(r)
        \/ Connect(r)
        \/ Load(r)
        \/ ExecuteStatement(r)
        \/ BuildContext(r)
        \/ Generate(r)
        \/ Execute(r)
        \/ SaveHistory(r)
        \/ Respond(r)
        \/ Collect(r)

Spec == Init /\ [][Next]_vars

\* ------------------------------------------------- the sanitizer on its own
\* load_sql_schema_into_sqlite run stage by stage on DDL scripts made of
\* whole lines: the line rules, the statement removals, the constraint
\* removals, the split.

LineCreate ==
    <<"CREATE", SP, "TABLE", SP, "t1", SP, "(", "c1", SP, "INT", ")",
      ";", NL>>

LineCreateMysql ==
    <<"CREATE", SP, "TABLE", SP, "t2", SP, "(", "id", SP, "INT", SP,
      "AUTO_INCREMENT", SP, "PRIMARY", SP, "KEY", ",", SP, "c1", SP,
      "ENUM", SP, "(", "1", ",", SP, "2", ")", SP, "UNIQUE", ")", ";",
      NL>>

LineCreateUniquePk ==
    <<"CREATE", SP, "TABLE", SP, "t3", SP, "(", "id", SP, "INT", SP,
      "AUTO_INCREMENT", SP, "UNIQUE", SP, "PRIMARY", SP, "KEY", ")", ";",
      NL>>

LineCreateKeys ==
    <<"CREATE", SP, "TABLE", SP, "t4", SP, "(", "c1", SP, "INT", ",", SP,
      "UNIQUE", SP, "KEY", SP, "k1", SP, "(", "c1", ")", ",", SP, "KEY",
      SP, "k2", SP, "(", "c1", ")", ")", ";", NL>>

LineAlterAdd ==
    <<"ALTER", SP, "TABLE", SP, "t1", SP, "ADD", SP, "c2", SP, "INT",
      ";", NL>>

LineAlterAddConstraint ==
    <<"ALTER", SP, "TABLE", SP, "t1", NL, SP, "ADD", SP, "CONSTRAINT",
      SP, "k3", SP, "UNIQUE", SP, "(", "c1", ")", ";", NL>>

LineCreateIndex ==
    <<"CREATE", SP, "INDEX", SP, "k1", SP, "ON", SP, "t1", SP, "(", "c1",
      ")", ";", NL>>

LineCreateUniqueIndex ==
    <<"CREATE", SP, "UNIQUE", SP, "INDEX", SP, "k2", SP, "ON", SP, "t1",
      SP, "(", "c1", ")", ";", NL>>

LineUse ==
    <<"USE", SP, "db", ";", NL>>

LineCreateDatabase ==
    <<"CREATE", SP, "DATABASE", SP, "db", ";", NL>>

LineComment ==
    <<"--", SP, "note", NL>>

LineInsert ==
    <<"INSERT", SP, "INTO", SP, "t1", SP, "VALUES", SP, "(", "1", ")",
      ";", NL>>

DdlLines ==
    {LineCreate,
     LineCreateMysql,
     LineCreateUniquePk,
     LineCreateKeys,
     LineAlterAdd,
     LineAlterAddConstraint,
     LineCreateIndex,
     LineCreateUniqueIndex,
     LineUse,
     LineCreateDatabase,
     LineComment,
     LineInsert}

MaxLines == 3

RECURSIVE Scripts(_)
\* The scripts of at most n lines, each line one of DdlLines.
Scripts(n) ==
    IF n = 0 THEN {<<>>}
    ELSE Scripts(n - 1) \cup
         {l \o s : l \in DdlLines, s \in Scripts(n - 1)}

InitDDL ==
    /\ gemini_key = ""
    /\ req = [r \in Requests |-> [entry |-> "cli", query |-> "", path |-> NoPath]]
    /\ pc = [r \in Requests |-> "done"]
    /\ conn = [r \in Requests |-> NoConn]
    /\ engines = [e \in Requests |-> NoEngine]
    /\ stmts = [r \in Requests |-> <<>>]
    /\ idx = [r \in Requests |-> 0]
    /\ ctx = [r \in Requests |-> NoCtx]
    /\ sql_query = [r \in Requests |-> <<>>]
    /\ result_rows = [r \in Requests |-> <<>>]
    /\ resp = [r \in Requests |-> NoResp]
    /\ history = <<>>
    /\ trace = [r \in Requests |-> <<>>]
    /\ \E text \in Scripts(MaxLines) : ddl = [NoDdl EXCEPT !.stage = "read", !.text = text]

\* Lines 80-99
SanitizeLines ==
    /\ ddl.stage = "read"
    /\ ddl' = [ddl EXCEPT !.stage = "lines", !.lines = CleanLines(ReadLines(ddl.text))]
    /\ UNCHANGED pipeline

\* Lines 101-104
SanitizeStatements ==
    /\ ddl.stage = "lines"
    /\ ddl' = [ddl EXCEPT !.stage = "removed", !.removed = RemoveStatements(ddl.lines)]
    /\ UNCHANGED pipeline

\* Lines 106-109
SanitizeConstraints ==
    /\ ddl.stage = "removed"
    /\ ddl' = [ddl EXCEPT !.stage = "clean", !.out = RemoveConstraints(ddl.removed)]
    /\ UNCHANGED pipeline

\* Lines 112-114
SplitStatements ==
    /\ ddl.stage = "clean"
    /\ ddl' = [ddl EXCEPT !.stage = "split", !.stmts = Statements(ddl.out)]
    /\ UNCHANGED pipeline

NextDDL ==
    \/ SanitizeLines
    \/ SanitizeStatements
    \/ SanitizeConstraints
    \/ SplitStatements

SpecDDL == InitDDL /\ [][NextDDL]_vars

\* ------------------------------------------------- properties

\* The positions of the calls named call in the trace of r.
Calls(r, call) == {k \in DOMAIN trace[r] : trace[r][k].call = call}

HasKey(body, key) == key \in DOMAIN body

\* A text of chunks that is not the empty string.
NonEmptyText(t) == \E k \in DOMAIN t : t[k] # ""

\* A column named marks, whatever its case (the names of the model).
MarksColumn(cols) == \E k \in DOMAIN cols : cols[k] \in {"marks", "Marks", "MARKS"}

\* C1: in both degraded cases (no credential, or the model call raised)
\* the generator returns the averaging query when the context has a marks
\* column and the row-count query otherwise.
C1_DegradedHeuristic ==
    \A r \in Requests : \A k \in Calls(r, "generate") :
        trace[r][k].degraded =>
            trace[r][k].sql =
                IF MarksColumn(trace[r][k].context.columns)
                THEN AvgQuery(trace[r][k].context.table_name)
                ELSE CountQuery(trace[r][k].context.table_name)

\* C2: a generated query whose execution fails is answered with the
\* generated text unchanged and a non-empty error message, and with no
\* result field.
C2_ExecutionFailureReported ==
    \A r \in Requests : \A k \in Calls(r, "query") :
        ~trace[r][k].ok =>
            /\ pc[r] = "done"
            /\ HasKey(resp[r], "sql") /\ HasKey(resp[r], "error")
            /\ ~HasKey(resp[r], "result")
            /\ \A g \in Calls(r, "generate") : resp[r].sql = trace[r][g].sql
            /\ NonEmptyText(resp[r].error)

\* C2 witness: a request whose generated query failed to run has returned.
C2_Witness ==
    \E r \in Requests : \E k \in Calls(r, "query") :
        /\ ~trace[r][k].ok
        /\ pc[r] = "done"
        /\ Calls(r, "generate") # {}

RECURSIVE Loaded(_, _, _)
\* The database after the first n statements of ss were handed to the
\* engine one after the other, starting from db.
Loaded(db, ss, n) ==
    IF n = 0 THEN db ELSE ExecStmt(Loaded(db, ss, n - 1), ss[n]).db

\* FileLoads[p][n]: an empty database after the first n of them.
FileLoads ==
    [p \in SqlPaths |->
        [n \in 0..Len(FileStatements[p]) |-> Loaded(EmptyDb, FileStatements[p], n)]]

\* The number of statements r has handed to its engine.
Executed(r) == Cardinality(Calls(r, "execute"))

\* C3: a statement that fails to execute is skipped: the statements handed
\* to the engine are the runnable statements of the sanitized text, in
\* order and all of them once the loop is over, the engine holds what the
\* successful ones did, and the request goes on to generate a query.
C3_FailedStatementSkipped ==
    \A r \in Requests :
        idx[r] >= 1 =>
            LET all == FileStatements[req[r].path]
                n == Executed(r)
            IN  /\ n <= Len(all)
                /\ \A k \in 1..n :
                      /\ trace[r][k].call = "execute"
                      /\ trace[r][k].stmt = all[k]
                      /\ trace[r][k].ok =
                            ExecStmt(FileLoads[req[r].path][k - 1], all[k]).ok
                /\ pc[r] # "stmt" => n = Len(all)
                /\ Db(r) = FileLoads[req[r].path][n]
                /\ pc[r] = "done" =>
                      Calls(r, "generate") # {} /\ HasKey(resp[r], "sql")

\* C3 witness: a statement failed, a later one succeeded, and the request
\* went on to generate its query.
C3_Witness ==
    \E r \in Requests : \E k, j \in Calls(r, "execute") :
        /\ k < j
        /\ ~trace[r][k].ok
        /\ trace[r][j].ok
        /\ Calls(r, "generate") # {}

\* What the load step of r alone has put into an empty engine so far.
OwnLoad(r) ==
    IF Suffix(req[r].path) = "csv"
    THEN IF ctx[r] # NoCtx THEN ToSql(EmptyDb, Files[req[r].path]) ELSE EmptyDb
    ELSE IF idx[r] >= 1
    THEN FileLoads[req[r].path][Executed(r)]
    ELSE EmptyDb

\* C4: every request has an engine of its own, which holds exactly what the
\* request's own load step put into it, and the rows its query returns are
\* those of that database, whatever the other request does.
C4_RequestIsolation ==
    /\ \A r, q \in Requests :
          (r # q /\ conn[r] # NoConn /\ conn[q] # NoConn) => conn[r] # conn[q]
    /\ \A r \in Requests :
          conn[r] # NoConn =>
              /\ Db(r) = OwnLoad(r)
              /\ \A k \in Calls(r, "query") :
                    LET res == ExecQuery(OwnLoad(r), sql_query[r]) IN
                    /\ trace[r][k].ok = res.ok
                    /\ trace[r][k].rows = res.rows

\* C4 witness: two requests that loaded different schemas have both run
\* their queries with success.
C4_Witness ==
    \E r, q \in Requests :
        /\ r # q
        /\ conn[r] # NoConn /\ conn[q] # NoConn
        /\ Db(r) # EmptyDb /\ Db(q) # EmptyDb /\ Db(r) # Db(q)
        /\ \E k \in Calls(r, "query") : trace[r][k].ok
        /\ \E k \in Calls(q, "query") : trace[q][k].ok

\* C5: a request that created an engine has released it when its handler
\* has returned.
C5_EngineReleased ==
    \A r \in Requests :
        (pc[r] = "done" /\ conn[r] # NoConn) => engines[conn[r]].status = "closed"

\* The inputs that are rejected before the schema is loaded: no query text
\* (the web handler), no schema path or no such file, a file of an unknown
\* kind, a csv file that does not parse.
RejectedInput(r) ==
    \/ req[r].entry = "app" /\ req[r].query = ""
    \/ req[r].path = NoPath
    \/ req[r].path \notin DOMAIN Files
    \/ Suffix(req[r].path) = "other"
    \/ Suffix(req[r].path) = "csv" /\ ~Files[req[r].path].parses

\* C6: a request whose input is rejected generates no query, executes none
\* and writes no history record, and its response is an error; a query is
\* generated or executed only once the schema context is built.
C6_RejectedBeforeQuery ==
    \A r \in Requests :
        /\ RejectedInput(r) =>
              /\ pc[r] \in {"start", "connect", "load", "done"}
              /\ Calls(r, "generate") = {}
              /\ Calls(r, "query") = {}
              /\ Calls(r, "history") = {}
              /\ pc[r] = "done" =>
                    /\ HasKey(resp[r], "error")
                    /\ ~HasKey(resp[r], "sql")
                    /\ ~HasKey(resp[r], "result")
        /\ \A k \in Calls(r, "generate") \cup Calls(r, "query") \cup Calls(r, "history") :
              /\ ctx[r] # NoCtx
              /\ \E g \in Calls(r, "generate") : g <= k /\ trace[r][g].context = ctx[r]

\* C6 witness: a request rejected while loading, after its engine was
\* created, has returned an error; another was rejected for its empty text.
C6_Witness ==
    /\ \E r \in Requests :
          /\ RejectedInput(r) /\ conn[r] # NoConn
          /\ pc[r] = "done" /\ HasKey(resp[r], "error")
    /\ \E r \in Requests :
          /\ req[r].entry = "app" /\ req[r].query = ""
          /\ pc[r] = "done" /\ HasKey(resp[r], "error")

\* C7: sanitizing the sanitized text again changes nothing.
C7_SanitizeIdempotent ==
    ddl.stage \in {"clean", "split"} => Translate(ddl.out) = ddl.out

\* A statement of the form ALTER TABLE name ADD ... or CREATE INDEX ...
IsRemovable(stmt) ==
    \/ MatchAlterAdd(Append(stmt, ";"), 1) # 0
    \/ MatchCreateIndex(Append(stmt, ";"), 1) # 0

RemovableCount(ss) == Cardinality({k \in DOMAIN ss : IsRemovable(ss[k])})

\* C8: no ALTER TABLE ... ADD and no CREATE INDEX statement is handed to
\* the engine, and the two removals take away these statements and no
\* other: the statements after them are as many as before, less the
\* removed ones.
C8_StatementsRemovedWhole ==
    ddl.stage \in {"removed", "clean", "split"} =>
        LET before == Statements(ddl.lines)
            after == Statements(ddl.removed)
        IN  /\ \A k \in DOMAIN after : ~IsRemovable(after[k])
            /\ ddl.stage = "split" =>
                  \A k \in DOMAIN ddl.stmts : ~IsRemovable(ddl.stmts[k])
            /\ Len(after) = Len(before) - RemovableCount(before)

CreatedNames ==
    [p \in SqlPaths |->
        LET text == Files[p].text
            heads == {i \in 1..Len(text) : MatchCreateTable(text, i) # 0}
        IN  [k \in 1..Cardinality(heads) |->
               LET i == CHOOSE i \in heads :
                            Cardinality({j \in heads : j < i}) = k - 1
               IN  text[MatchCreateTable(text, i)]]]

\* C10: on the DDL path the context's table is the one named by the first
\* CREATE TABLE [IF NOT EXISTS] of the original text; when the engine does
\* not hold that table the column list is empty, and the generator is
\* still called with that context.
C10_FirstCreateTable ==
    \A r \in Requests :
        (Suffix(req[r].path) = "sql" /\ ctx[r] # NoCtx) =>
            LET names == CreatedNames[req[r].path]
            IN  /\ names # <<>> => ctx[r].table_name = names[1]
                /\ ctx[r].table_name \notin DOMAIN Db(r) => ctx[r].columns = <<>>
                /\ ctx[r].table_name \in DOMAIN Db(r) =>
                      ctx[r].columns = Db(r)[ctx[r].table_name].cols
                /\ pc[r] \in {"execute", "history", "respond", "done"} =>
                      \E g \in Calls(r, "generate") : trace[r][g].context = ctx[r]

\* C10 witness: the first CREATE TABLE of the text failed to load, a later
\* one loaded, and the generator was called with the first one's name and
\* no columns.
C10_Witness ==
    \E r \in Requests : \E g \in Calls(r, "generate") :
        /\ Suffix(req[r].path) = "sql"
        /\ Len(CreatedNames[req[r].path]) >= 2
        /\ trace[r][g].context.table_name \notin DOMAIN Db(r)
        /\ trace[r][g].context.columns = <<>>
        /\ Db(r) # EmptyDb

\* The history writes of all requests that stored their record.
SavedWrites ==
    UNION {{<<r, h>> : h \in {k \in Calls(r, "history") : trace[r][k].ok}} :
              r \in Requests}

\* C11: a request writes to the history at most once, and only after its
\* query ran with success; the store holds one record for every write that
\* went through and no other; whether the write went through or failed,
\* the response is the generated query with the rows of its result.
C11_HistoryAfterSuccess ==
    /\ \A r \in Requests :
          /\ Cardinality(Calls(r, "history")) <= 1
          /\ \A h \in Calls(r, "history") :
                /\ req[r].entry = "app"
                /\ \E k \in Calls(r, "query") : k < h /\ trace[r][k].ok
                /\ \A k \in Calls(r, "query") : trace[r][k].ok
                /\ ~RejectedInput(r)
                /\ pc[r] = "done" =>
                      /\ DOMAIN resp[r] = {"code", "sql", "result"}
                      /\ resp[r].code = 200
                      /\ \A g \in Calls(r, "generate") : resp[r].sql = trace[r][g].sql
                      /\ \A k \in Calls(r, "query") : resp[r].result = trace[r][k].rows
    /\ Len(history) = Cardinality(SavedWrites)
    /\ \A n \in DOMAIN history :
          \E w \in SavedWrites :
              /\ history[n].query = req[w[1]].query
              /\ history[n].generated_sql = sql_query[w[1]]
              /\ history[n].result_count = Len(result_rows[w[1]])

\* C11 witness: one request whose history write failed has answered with
\* its query and rows, and a request has stored its record.
C11_Witness ==
    /\ \E r \in Requests : \E h \in Calls(r, "history") :
          /\ ~trace[r][h].ok
          /\ pc[r] = "done" /\ HasKey(resp[r], "result")
    /\ \E r \in Requests : \E h \in Calls(r, "history") :
          /\ trace[r][h].ok
          /\ pc[r] = "done" /\ Len(history) = 1

====
